---- MODULE Spec2Model ----
(***************************************************************************)
(* Spritefy: the music library of the HTTP service (src/app.py) and of the *)
(* desktop player (src/main.py).                                           *)
(*                                                                         *)
(* A file path is the tuple <<folder, stem, extension>>, so that basename  *)
(* and splitext are real projections.  A Song is a record of the fields    *)
(* the constructor sets, plus obj, which stands for the identity of the    *)
(* Python object (the scan that constructed it): a rescan builds new       *)
(* instances.                                                              *)
(***************************************************************************)
EXTENDS Integers, Sequences, FiniteSets, TLC

\* ------------------------------------------------------------------ bounds
\* Scan threads started during one run (the constructor's scan included).
MaxScans == 3
\* Scan threads started by the desktop player (restarts and rescans).
MaxDeskScans == 2
\* Longest playlist a caller saves.
MaxPlLen == 2
\* Longest playback queue and history the player is driven to.
MaxQueue == 3
MaxHist == 2
\* Longest play history the HTTP service is driven to.
MaxPlays == 3
\* How far below 0 and above 100 the values given to set_volume reach.
VolumeMargin == 5

\* ------------------------------------------------------- the music folder
Stems == {"song1", "song2"}
MusicFolder == "music"
Mp3Ext == ".mp3"
AllFiles == {<<MusicFolder, s, Mp3Ext>> : s \in Stems}
\* What the folder holds for a path: nothing, an mp3 whose tags can be read,
\* or an mp3 on which mutagen raises.
FileStates == {"absent", "ok", "bad"}
PlaylistNames == {"X", "Y"}
\* The desktop scenarios: files come and go, one playlist name is in use.
DeskFileStates == {"absent", "ok"}
DeskNames == {"X"}
\* The files whose Songs the player is given, in scan order.
TrackStems == <<"a", "b", "c">>

\* Python's None, where a Song may stand.
None == [none |-> TRUE]
\* The value of a field that was never read.
Unread == ""
DefaultArtist == "Artista Desconhecido"
DefaultAlbum == "Álbum Desconhecido"
TagTitle == [song1 |-> "Test", song2 |-> "Other"]
TagArtist == "Band"
TagAlbum == "Record"
TagLength == 180

VARIABLES
    dir,             \* the music folder: path -> FileStates
    songs_list,      \* app.py MusicLibrary.songs_list
    songs_map,       \* app.py MusicLibrary.songs_map: filename -> Song
    is_scanning,     \* app.py MusicLibrary.is_scanning
    scan_lock,       \* app.py MusicLibrary.scan_lock: 0 free, else the holder
    nscans,          \* scan threads started so far
    wpc,             \* position of each scan thread
    found,           \* each thread's glob result
    temp_songs_list, \* each thread's temp_songs_list
    temp_songs_map,  \* each thread's temp_songs_map
    rpc,             \* position of the POST /api/scan handler
    resp,            \* status code of the last HTTP response
    replaced,        \* history: the listing of the most recent replacement
    seen,            \* history: filenames of every earlier replacement
    app_playlists,       \* app.py MusicLibrary.playlists: name -> filenames
    app_playlists_file,  \* app.py playlists.json
    req,                 \* the body of the last POST /api/playlists
    app_save,            \* how the last _save_playlists ended
    songs,               \* main.py MusicLibrary.songs
    songs_by_filepath,   \* main.py MusicLibrary.songs_by_filepath
    playlists,           \* main.py MusicLibrary.playlists: name -> Songs
    playlists_file,      \* main.py data/playlists.json
    dn,                  \* main.py scan threads started so far
    boot,                \* the scan thread main() started in this process
    tpc,                 \* position of each main.py scan thread
    found_files,         \* each thread's found_files
    new_songs,           \* each thread's new_songs
    new_map,             \* each thread's local songs_by_filepath
    playlists_from_file, \* each thread's playlists_from_file
    todo,                \* names each thread's load loop has yet to visit
    result,              \* how the last create_or_update_playlist ended
    current_song,        \* main.py Player.current_song
    is_playing,          \* main.py Player.is_playing
    playback_queue,      \* main.py Player.playback_queue
    history,             \* main.py Player.history
    audio_src,           \* main.py Player.audio.src
    audio_playing,       \* whether Player.audio was last told to play
    events,              \* what the last command notified, in order
    printed,             \* what the last command printed
    cmd,                 \* the last Player command and its argument
    script,              \* history: the queue loaded first, while the commands
                         \* so far are load_playlist, play, next, prev
    step,                \* history: how many of those four have run
    observers,           \* main.py Player.observers: event -> callbacks
    calls,               \* the observer calls the last command made, in order
    audio_volume,        \* main.py Player.audio.volume, a fraction
    play_history,        \* app.py MusicLibrary.play_history
    spc,                 \* position of the GET /api/stream handler
    sname                \* the filename of the last stream request

scanVars == <<songs_list, songs_map, is_scanning, scan_lock, nscans, wpc, found,
              temp_songs_list, temp_songs_map, rpc, replaced, seen>>
plVars == <<app_playlists, app_playlists_file, req, app_save>>
deskVars == <<songs, songs_by_filepath, playlists, playlists_file, dn, boot, tpc,
              found_files, new_songs, new_map, playlists_from_file, todo, result>>
playerVars == <<current_song, is_playing, playback_queue, history, audio_src,
                audio_playing, events, printed, cmd, script, step,
                observers, calls, audio_volume>>
histVars == <<play_history, spc, sname>>
vars == <<dir, resp, scanVars, plVars, deskVars, playerVars, histVars>>

Workers == 1..MaxScans
Threads == 1..MaxDeskScans

\* ------------------------------------------------------------ Song, paths
Basename(filepath) == <<filepath[2], filepath[3]>>
Splitext(filename) == <<filename[1], filename[2]>>
Filenames == {Basename(f) : f \in AllFiles}

\* MP3(filepath, ID3=EasyID3) and the four reads that follow it. raised is
\* TRUE when mutagen raises (the file is unreadable or gone): nothing was read.
ReadTags(filepath, st) ==
    IF st = "ok"
    THEN [raised |-> FALSE, title |-> TagTitle[filepath[2]], artist |-> TagArtist,
          album |-> TagAlbum, duration |-> TagLength]
    ELSE [raised |-> TRUE, title |-> Unread, artist |-> Unread,
          album |-> Unread, duration |-> -1]

\* A constructor whose except clause lost the defaults.
MetadataNoDefaults(audio, defaults) ==
    [title |-> audio.title, artist |-> audio.artist,
     album |-> audio.album, duration |-> audio.duration]

\* The fields the constructor ends with: the except clause keeps the defaults.
Metadata(audio, defaults) ==
    IF audio.raised
    THEN defaults
    ELSE [title |-> audio.title, artist |-> audio.artist,
          album |-> audio.album, duration |-> audio.duration]

Song(filepath, song_id, st, scan) ==
    LET filename == Basename(filepath)
        defaults == [title |-> Splitext(filename)[1], artist |-> DefaultArtist,
                     album |-> DefaultAlbum, duration |-> 0]
        meta == Metadata(ReadTags(filepath, st), defaults)
    IN  [filepath |-> filepath, filename |-> filename, id |-> song_id,
         title |-> meta.title, artist |-> meta.artist, album |-> meta.album,
         duration |-> meta.duration, obj |-> scan]

\* ------------------------------------------------------------- sequences
RECURSIVE SetToSeqs(_)
\* Every ordering of a finite set.
SetToSeqs(S) ==
    IF S = {} THEN {<<>>}
    ELSE UNION {{<<x>> \o q : q \in SetToSeqs(S \ {x})} : x \in S}

Range(q) == {q[i] : i \in 1..Len(q)}

\* [song.filepath for song in song_list]
Paths(list) == [i \in 1..Len(list) |-> list[i].filepath]

\* glob.glob(os.path.join(music_folder, '*.mp3')): the files present, in the
\* order the operating system lists them.
Glob == SetToSeqs({f \in AllFiles : dir[f] # "absent"})

\* ------------------------------------------------------------- the readers
get_scan_status == [is_scanning |-> is_scanning, song_count |-> Len(songs_list)]

get_song_by_filename(filename) ==
    IF filename \in DOMAIN songs_map THEN songs_map[filename] ELSE None

\* ------------------------------------------------------- playlists.json
\* The file is absent, holds a JSON document, or holds a truncated one.
NoFile == [kind |-> "absent"]
Truncated == [kind |-> "corrupt"]
NotRead == [kind |-> "unread"]
NoRequest == [valid |-> FALSE]
\* Player.audio.src before any track was played; no command yet.
NoSrc == <<>>
NoCommand == [op |-> "none", arg |-> None, found_at |-> 0,
              after_pause |-> FALSE, after_prev |-> FALSE,
              had_current |-> FALSE]
\* The keys of Player.observers.
EventTypes == {"song_change", "play_pause"}
\* The divisor in set_volume.
Percent == 100
\* Player.audio.volume is the fraction num/den. Before set_volume is called
\* it is what fa.Audio starts with, full volume.
InitialVolume == [num |-> 1, den |-> 1]
\* No stream request yet.
NoName == <<>>

\* json.dump(mapping, f): the document written for a name -> list mapping.
JsonDump(mapping) == [kind |-> "json", data |-> mapping]

\* json.load(f) on a document json.dump wrote.
JsonLoad(file) == file.data

\* What open(file, 'w') and json.dump leave on disk: the whole document, the
\* old file when open raises, a truncated file when the write raises.
WriteFile(old, mapping, outcome) ==
    CASE outcome = "ok" -> JsonDump(mapping)
      [] outcome = "open_raises" -> old
      [] outcome = "dump_raises" -> Truncated

WriteOutcomes == {"ok", "open_raises", "dump_raises"}

\* Sequences over S of length at most n.
SeqsUpTo(S, n) == UNION {[1..k -> S] : k \in 0..n}

\* ----------------------------------------------------------------- Init
Init ==
    /\ dir = [f \in AllFiles |-> "absent"]
    /\ songs_list = <<>>
    /\ songs_map = <<>>
    /\ is_scanning = FALSE
    /\ scan_lock = 0
    /\ nscans = 1
    /\ wpc = [w \in Workers |-> IF w = 1 THEN "start" ELSE "none"]
    /\ found = [w \in Workers |-> <<>>]
    /\ temp_songs_list = [w \in Workers |-> <<>>]
    /\ temp_songs_map = [w \in Workers |-> <<>>]
    /\ rpc = "idle"
    /\ resp = 0
    /\ replaced = <<>>
    /\ seen = {}
    /\ app_playlists = <<>>
    /\ app_playlists_file = NoFile
    /\ req = NoRequest
    /\ app_save = "none"
    /\ songs = <<>>
    /\ songs_by_filepath = <<>>
    /\ playlists = <<>>
    /\ playlists_file = NoFile
    /\ dn = 1
    /\ boot = 1
    /\ tpc = [t \in Threads |-> IF t = 1 THEN "glob" ELSE "none"]
    /\ found_files = [t \in Threads |-> <<>>]
    /\ new_songs = [t \in Threads |-> <<>>]
    /\ new_map = [t \in Threads |-> <<>>]
    /\ playlists_from_file = [t \in Threads |-> NotRead]
    /\ todo = [t \in Threads |-> {}]
    /\ result = "none"
    /\ current_song = None
    /\ is_playing = FALSE
    /\ playback_queue = <<>>
    /\ history = <<>>
    /\ audio_src = NoSrc
    /\ audio_playing = FALSE
    /\ events = <<>>
    /\ printed = <<>>
    /\ cmd = NoCommand
    /\ script = <<>>
    /\ step = 0
    /\ observers = [e \in EventTypes |-> <<>>]
    /\ calls = <<>>
    /\ audio_volume = InitialVolume
    /\ play_history = <<>>
    /\ spc = "idle"
    /\ sname = NoName

\* ------------------------------------------------------- the environment
\* A file is added, removed, or its tags become readable or unreadable.
SetFile(f, st) ==
    /\ dir[f] # st
    /\ dir' = [dir EXCEPT ![f] = st]
    /\ UNCHANGED <<resp, scanVars, plVars, deskVars, playerVars, histVars>>

\* -------------------------------------------------- POST /api/scan handler
\* trigger_scan, its own test of is_scanning.
TriggerCheck ==
    /\ rpc = "idle"
    /\ IF is_scanning
       THEN /\ resp' = 429
            /\ rpc' = "idle"
       ELSE /\ nscans < MaxScans
            /\ resp' = resp
            /\ rpc' = "call"
    /\ UNCHANGED <<plVars, deskVars, playerVars, histVars, dir,
                   songs_list, songs_map, is_scanning, scan_lock, nscans, wpc,
                   found, temp_songs_list, temp_songs_map, replaced, seen>>

\* scan_songs_async, then the handler's 202.
ScanSongsAsync ==
    /\ rpc = "call"
    /\ IF is_scanning
       THEN UNCHANGED <<nscans, wpc>>
       ELSE /\ nscans' = nscans + 1
            /\ wpc' = [wpc EXCEPT ![nscans + 1] = "start"]
    /\ resp' = 202
    /\ rpc' = "idle"
    /\ UNCHANGED <<plVars, deskVars, playerVars, histVars, dir,
                   songs_list, songs_map, is_scanning, scan_lock,
                   found, temp_songs_list, temp_songs_map, replaced, seen>>

\* ------------------------------------------------------- _scan_songs_worker
\* A worker that does not wait for the lock.
LockIgnored == TRUE

\* with self.scan_lock: the lock can be taken only when no thread holds it.
LockFree == scan_lock = 0

Acquire(w) ==
    /\ wpc[w] = "start"
    /\ LockFree
    /\ scan_lock' = w
    /\ wpc' = [wpc EXCEPT ![w] = "locked"]
    /\ UNCHANGED <<plVars, deskVars, playerVars, histVars, dir,
                   songs_list, songs_map, is_scanning, nscans,
                   found, temp_songs_list, temp_songs_map, rpc, resp, replaced, seen>>

SetScanning(w) ==
    /\ wpc[w] = "locked"
    /\ is_scanning' = TRUE
    /\ temp_songs_list' = [temp_songs_list EXCEPT ![w] = <<>>]
    /\ temp_songs_map' = [temp_songs_map EXCEPT ![w] = <<>>]
    /\ wpc' = [wpc EXCEPT ![w] = "glob"]
    /\ UNCHANGED <<plVars, deskVars, playerVars, histVars, dir,
                   songs_list, songs_map, scan_lock, nscans,
                   found, rpc, resp, replaced, seen>>

DoGlob(w) ==
    /\ wpc[w] = "glob"
    /\ \E listing \in Glob : found' = [found EXCEPT ![w] = listing]
    /\ wpc' = [wpc EXCEPT ![w] = "build"]
    /\ UNCHANGED <<plVars, deskVars, playerVars, histVars, dir,
                   songs_list, songs_map, is_scanning, scan_lock, nscans,
                   temp_songs_list, temp_songs_map, rpc, resp, replaced, seen>>

\* A loop that inserts at the front instead of appending.
InsertSongFirst(list, song) == <<song>> \o list

\* temp_songs_list.append(song)
AppendSong(list, song) == Append(list, song)

\* temp_songs_map[song.filename] = song
PutSong(map, song) == (song.filename :> song) @@ map

\* One turn of the for loop: enumerate gives the index and the path.
BuildOne(w) ==
    /\ wpc[w] = "build"
    /\ Len(temp_songs_list[w]) < Len(found[w])
    /\ LET index == Len(temp_songs_list[w])
           filepath == found[w][index + 1]
           song == Song(filepath, index, dir[filepath], w)
       IN  /\ temp_songs_list' =
                 [temp_songs_list EXCEPT ![w] = AppendSong(temp_songs_list[w], song)]
           /\ temp_songs_map' =
                 [temp_songs_map EXCEPT ![w] = PutSong(temp_songs_map[w], song)]
    /\ UNCHANGED <<plVars, deskVars, playerVars, histVars, dir,
                   songs_list, songs_map, is_scanning, scan_lock, nscans, wpc,
                   found, rpc, resp, replaced, seen>>

\* self.songs_list = temp_songs_list
AssignList(w) ==
    /\ wpc[w] = "build"
    /\ Len(temp_songs_list[w]) = Len(found[w])
    /\ songs_list' = temp_songs_list[w]
    /\ seen' = seen \cup {Basename(f) : f \in Range(replaced)}
    /\ replaced' = found[w]
    /\ wpc' = [wpc EXCEPT ![w] = "assigned"]
    /\ UNCHANGED <<plVars, deskVars, playerVars, histVars, dir,
                   songs_map, is_scanning, scan_lock, nscans,
                   found, temp_songs_list, temp_songs_map, rpc, resp>>

\* A worker that updates the old mapping instead of replacing it.
UpdateMap(old, new) == new @@ old

\* The value self.songs_map is assigned.
ReplaceMap(old, new) == new

\* self.songs_map = temp_songs_map
AssignMap(w) ==
    /\ wpc[w] = "assigned"
    /\ songs_map' = ReplaceMap(songs_map, temp_songs_map[w])
    /\ wpc' = [wpc EXCEPT ![w] = "mapped"]
    /\ UNCHANGED <<plVars, deskVars, playerVars, histVars, dir,
                   songs_list, is_scanning, scan_lock, nscans,
                   found, temp_songs_list, temp_songs_map, rpc, resp, replaced, seen>>

\* self.is_scanning = False
ClearScanning(w) ==
    /\ wpc[w] = "mapped"
    /\ is_scanning' = FALSE
    /\ wpc' = [wpc EXCEPT ![w] = "cleared"]
    /\ UNCHANGED <<plVars, deskVars, playerVars, histVars, dir,
                   songs_list, songs_map, scan_lock, nscans,
                   found, temp_songs_list, temp_songs_map, rpc, resp, replaced, seen>>

\* A thread that ends without giving the lock back.
ReleaseKeepingLock(w) ==
    /\ wpc[w] = "cleared"
    /\ wpc' = [wpc EXCEPT ![w] = "done"]
    /\ found' = [found EXCEPT ![w] = <<>>]
    /\ temp_songs_list' = [temp_songs_list EXCEPT ![w] = <<>>]
    /\ temp_songs_map' = [temp_songs_map EXCEPT ![w] = <<>>]
    /\ UNCHANGED <<plVars, deskVars, playerVars, histVars, dir,
                   songs_list, songs_map, is_scanning, scan_lock, nscans,
                   rpc, resp, replaced, seen>>

\* Leaving the with block; the thread ends and its locals are gone.
Release(w) ==
    /\ wpc[w] = "cleared"
    /\ scan_lock' = 0
    /\ wpc' = [wpc EXCEPT ![w] = "done"]
    /\ found' = [found EXCEPT ![w] = <<>>]
    /\ temp_songs_list' = [temp_songs_list EXCEPT ![w] = <<>>]
    /\ temp_songs_map' = [temp_songs_map EXCEPT ![w] = <<>>]
    /\ UNCHANGED <<plVars, deskVars, playerVars, histVars, dir,
                   songs_list, songs_map, is_scanning, nscans,
                   rpc, resp, replaced, seen>>

Next ==
    \/ \E f \in AllFiles, st \in FileStates : SetFile(f, st)
    \/ TriggerCheck
    \/ ScanSongsAsync
    \/ \E w \in Workers : Acquire(w)
    \/ \E w \in Workers : SetScanning(w)
    \/ \E w \in Workers : DoGlob(w)
    \/ \E w \in Workers : BuildOne(w)
    \/ \E w \in Workers : AssignList(w)
    \/ \E w \in Workers : AssignMap(w)
    \/ \E w \in Workers : ClearScanning(w)
    \/ \E w \in Workers : Release(w)

Spec == Init /\ [][Next]_vars
\* ------------------------------------------------- GET /api/stream
\* Song.to_dict() of app.py: the object's fields, in a new dictionary.
to_dict(song) ==
    [id |-> song.id, filename |-> song.filename, title |-> song.title,
     artist |-> song.artist, album |-> song.album, duration |-> song.duration]

\* An add_song_to_history that does not look at the top of the history.
add_song_unchecked(hist, filename) ==
    LET song == get_song_by_filename(filename)
    IN  IF song # None THEN Append(hist, to_dict(song)) ELSE hist

\* The play_history add_song_to_history(filename) leaves.
add_song_to_history(hist, filename) ==
    LET song == get_song_by_filename(filename)
    IN  IF song # None
        THEN IF hist = <<>> \/ hist[Len(hist)].filename # song.filename
             THEN Append(hist, to_dict(song))
             ELSE hist
        ELSE hist

\* list(reversed(library.play_history))
get_play_history ==
    [i \in 1..Len(play_history) |-> play_history[Len(play_history) + 1 - i]]

\* stream_audio up to its test of the lookup: 404 for a filename the map
\* does not hold.
StreamLookup(filename) ==
    /\ spc \in {"idle", "missed", "sent"}
    /\ Len(play_history) < MaxPlays
    /\ sname' = filename
    /\ IF get_song_by_filename(filename) = None
       THEN /\ resp' = 404
            /\ spc' = "missed"
       ELSE /\ resp' = resp
            /\ spc' = "found"
    /\ UNCHANGED <<dir, scanVars, plVars, deskVars, playerVars, play_history>>

\* library.add_song_to_history(filename)
AddSongToHistory ==
    /\ spc = "found"
    /\ play_history' = add_song_to_history(play_history, sname)
    /\ spc' = "recorded"
    /\ UNCHANGED <<dir, resp, scanVars, plVars, deskVars, playerVars, sname>>

\* send_from_directory(library.music_folder, filename): 404 when the file
\* has left the folder since the scan.
SendFromDirectory ==
    /\ spc = "recorded"
    /\ resp' = IF dir[<<MusicFolder, sname[1], sname[2]>>] = "absent"
               THEN 404 ELSE 200
    /\ spc' = "sent"
    /\ UNCHANGED <<dir, scanVars, plVars, deskVars, playerVars,
                   play_history, sname>>

\* The service after construction: the constructor's scan, the folder, and
\* stream requests one at a time.
NextHistory ==
    \/ \E f \in AllFiles, st \in FileStates : SetFile(f, st)
    \/ \E w \in Workers : Acquire(w)
    \/ \E w \in Workers : SetScanning(w)
    \/ \E w \in Workers : DoGlob(w)
    \/ \E w \in Workers : BuildOne(w)
    \/ \E w \in Workers : AssignList(w)
    \/ \E w \in Workers : AssignMap(w)
    \/ \E w \in Workers : ClearScanning(w)
    \/ \E w \in Workers : Release(w)
    \/ \E filename \in Filenames : StreamLookup(filename)
    \/ AddSongToHistory
    \/ SendFromDirectory

SpecHistory == Init /\ [][NextHistory]_vars

\* ------------------------------------------------- POST /api/playlists
\* handle_playlists with a body that has 'name' and 'songs': the entry is set,
\* _save_playlists swallows whatever the write raises, and the answer is 201.
PostPlaylists(name, list, outcome) ==
    /\ app_playlists' = (name :> list) @@ app_playlists
    /\ app_playlists_file' =
          WriteFile(app_playlists_file, (name :> list) @@ app_playlists, outcome)
    /\ req' = [valid |-> TRUE, name |-> name, songs |-> list]
    /\ app_save' = IF outcome = "ok" THEN "ok" ELSE "raised"
    /\ resp' = 201
    /\ UNCHANGED <<dir, scanVars, deskVars, playerVars, histVars>>

\* handle_playlists with a body that lacks 'name' or 'songs'.
PostInvalid ==
    /\ req' = NoRequest
    /\ resp' = 400
    /\ UNCHANGED <<dir, scanVars, deskVars, playerVars, histVars,
                   app_playlists, app_playlists_file, app_save>>

\* _load_playlists: the document if the file exists and parses, else empty.
LoadAppPlaylists(file) ==
    IF file.kind = "json" THEN JsonLoad(file) ELSE <<>>

\* The service is restarted: MusicLibrary() runs again on the same files.
AppRestart ==
    /\ app_playlists' = LoadAppPlaylists(app_playlists_file)
    /\ songs_list' = <<>>
    /\ songs_map' = <<>>
    /\ is_scanning' = FALSE
    /\ scan_lock' = 0
    /\ nscans' = 1
    /\ wpc' = [w \in Workers |-> IF w = 1 THEN "start" ELSE "none"]
    /\ found' = [w \in Workers |-> <<>>]
    /\ temp_songs_list' = [w \in Workers |-> <<>>]
    /\ temp_songs_map' = [w \in Workers |-> <<>>]
    /\ rpc' = "idle"
    /\ replaced' = <<>>
    /\ seen' = {}
    /\ req' = NoRequest
    /\ app_save' = "none"
    /\ resp' = 0
    /\ UNCHANGED <<dir, deskVars, playerVars, histVars, app_playlists_file>>

NextPlaylists ==
    \/ \E name \in PlaylistNames, list \in SeqsUpTo(Filenames, MaxPlLen),
          outcome \in WriteOutcomes : PostPlaylists(name, list, outcome)
    \/ PostInvalid
    \/ AppRestart

SpecPlaylists == Init /\ [][NextPlaylists]_vars

\* ========================================================= desktop player
\* The Song of main.py is the Song above (its duration_str is display only).
get_song_by_filepath(filepath) ==
    IF filepath \in DOMAIN songs_by_filepath THEN songs_by_filepath[filepath] ELSE None

get_playlist(name) ==
    IF name \in DOMAIN playlists THEN playlists[name] ELSE <<>>

\* scan_songs: the thread is started.
ScanSongs ==
    /\ dn < MaxDeskScans
    /\ dn' = dn + 1
    /\ tpc' = [tpc EXCEPT ![dn + 1] = "glob"]
    /\ UNCHANGED <<dir, resp, scanVars, plVars, playerVars, histVars,
                   songs, songs_by_filepath, playlists,
                   playlists_file, boot, found_files, new_songs, new_map,
                   playlists_from_file, todo, result>>

TGlob(t) ==
    /\ tpc[t] = "glob"
    /\ \E listing \in Glob : found_files' = [found_files EXCEPT ![t] = listing]
    /\ new_songs' = [new_songs EXCEPT ![t] = <<>>]
    /\ new_map' = [new_map EXCEPT ![t] = <<>>]
    /\ tpc' = [tpc EXCEPT ![t] = "build"]
    /\ UNCHANGED <<dir, resp, scanVars, plVars, playerVars, histVars,
                   songs, songs_by_filepath, playlists,
                   playlists_file, dn, boot, playlists_from_file, todo, result>>

\* songs_by_filepath[filepath] = song
PutSongByPath(map, filepath, song) == (filepath :> song) @@ map

TBuildOne(t) ==
    /\ tpc[t] = "build"
    /\ Len(new_songs[t]) < Len(found_files[t])
    /\ LET index == Len(new_songs[t])
           filepath == found_files[t][index + 1]
           song == Song(filepath, index, dir[filepath], t)
       IN  /\ new_songs' = [new_songs EXCEPT ![t] = Append(new_songs[t], song)]
           /\ new_map' = [new_map EXCEPT ![t] = PutSongByPath(new_map[t], filepath, song)]
    /\ UNCHANGED <<dir, resp, scanVars, plVars, playerVars, histVars,
                   songs, songs_by_filepath, playlists,
                   playlists_file, dn, boot, tpc, found_files, playlists_from_file,
                   todo, result>>

\* self.songs = new_songs
TAssignSongs(t) ==
    /\ tpc[t] = "build"
    /\ Len(new_songs[t]) = Len(found_files[t])
    /\ songs' = new_songs[t]
    /\ tpc' = [tpc EXCEPT ![t] = "assigned"]
    /\ UNCHANGED <<dir, resp, scanVars, plVars, playerVars, histVars, songs_by_filepath, playlists,
                   playlists_file, dn, boot, found_files, new_songs, new_map,
                   playlists_from_file, todo, result>>

\* self.songs_by_filepath = songs_by_filepath
TAssignMap(t) ==
    /\ tpc[t] = "assigned"
    /\ songs_by_filepath' = new_map[t]
    /\ tpc' = [tpc EXCEPT ![t] = "load"]
    /\ UNCHANGED <<dir, resp, scanVars, plVars, playerVars, histVars,
                   songs, playlists,
                   playlists_file, dn, boot, found_files, new_songs, new_map,
                   playlists_from_file, todo, result>>

\* load_playlists up to json.load: return when the file does not exist, the
\* except clause when it does not parse, else the parsed document.
TLoadRead(t) ==
    /\ tpc[t] = "load"
    /\ CASE playlists_file.kind = "absent" ->
              /\ tpc' = [tpc EXCEPT ![t] = "complete"]
              /\ UNCHANGED <<playlists, playlists_from_file, todo>>
         [] playlists_file.kind = "corrupt" ->
              /\ playlists' = <<>>
              /\ tpc' = [tpc EXCEPT ![t] = "complete"]
              /\ UNCHANGED <<playlists_from_file, todo>>
         [] playlists_file.kind = "json" ->
              /\ playlists_from_file' = [playlists_from_file EXCEPT ![t] = playlists_file]
              /\ todo' = [todo EXCEPT ![t] = DOMAIN JsonLoad(playlists_file)]
              /\ tpc' = [tpc EXCEPT ![t] = "clear"]
              /\ UNCHANGED playlists
    /\ UNCHANGED <<dir, resp, scanVars, plVars, playerVars, histVars,
                   songs, songs_by_filepath,
                   playlists_file, dn, boot, found_files, new_songs, new_map, result>>

\* self.playlists.clear()
TClear(t) ==
    /\ tpc[t] = "clear"
    /\ playlists' = <<>>
    /\ tpc' = [tpc EXCEPT ![t] = "resolve"]
    /\ UNCHANGED <<dir, resp, scanVars, plVars, playerVars, histVars,
                   songs, songs_by_filepath,
                   playlists_file, dn, boot, found_files, new_songs, new_map,
                   playlists_from_file, todo, result>>

RECURSIVE ResolveUntilMissing(_)
\* A loop that stops at the first path that does not resolve.
ResolveUntilMissing(filepaths) ==
    IF filepaths = <<>> \/ get_song_by_filepath(Head(filepaths)) = None
    THEN <<>>
    ELSE <<get_song_by_filepath(Head(filepaths))>> \o ResolveUntilMissing(Tail(filepaths))

RECURSIVE ResolveAll(_)
\* The inner loop: the Songs of the paths that resolve, in the saved order.
ResolveAll(filepaths) ==
    IF filepaths = <<>>
    THEN <<>>
    ELSE LET song == get_song_by_filepath(Head(filepaths))
         IN  (IF song # None THEN <<song>> ELSE <<>>) \o ResolveAll(Tail(filepaths))

\* One turn of the outer loop: self.playlists[name] = song_objects
TResolveOne(t, name) ==
    /\ tpc[t] = "resolve"
    /\ name \in todo[t]
    /\ playlists' =
          (name :> ResolveAll(JsonLoad(playlists_from_file[t])[name])) @@ playlists
    /\ todo' = [todo EXCEPT ![t] = todo[t] \ {name}]
    /\ UNCHANGED <<dir, resp, scanVars, plVars, playerVars, histVars,
                   songs, songs_by_filepath,
                   playlists_file, dn, boot, tpc, found_files, new_songs, new_map,
                   playlists_from_file, result>>

\* The loop is over: load_playlists returns.
TLoadDone(t) ==
    /\ tpc[t] = "resolve"
    /\ todo[t] = {}
    /\ tpc' = [tpc EXCEPT ![t] = "complete"]
    /\ UNCHANGED <<dir, resp, scanVars, plVars, playerVars, histVars,
                   songs, songs_by_filepath, playlists,
                   playlists_file, dn, boot, found_files, new_songs, new_map,
                   playlists_from_file, todo, result>>

\* on_scan_complete(); the thread ends and its locals are gone.
TComplete(t) ==
    /\ tpc[t] = "complete"
    /\ tpc' = [tpc EXCEPT ![t] = "done"]
    /\ found_files' = [found_files EXCEPT ![t] = <<>>]
    /\ new_songs' = [new_songs EXCEPT ![t] = <<>>]
    /\ new_map' = [new_map EXCEPT ![t] = <<>>]
    /\ playlists_from_file' = [playlists_from_file EXCEPT ![t] = NotRead]
    /\ UNCHANGED <<dir, resp, scanVars, plVars, playerVars, histVars,
                   songs, songs_by_filepath, playlists,
                   playlists_file, dn, boot, todo, result>>

\* save_playlists: the document holds the file paths, not the Songs.
PlaylistsToSave(pl) == [name \in DOMAIN pl |-> Paths(pl[name])]

\* create_or_update_playlist: the entry is set, then save_playlists writes the
\* whole store; what the write raises reaches the caller.
CreateOrUpdatePlaylist(name, list, outcome) ==
    /\ playlists' = (name :> list) @@ playlists
    /\ playlists_file' =
          WriteFile(playlists_file, PlaylistsToSave((name :> list) @@ playlists), outcome)
    /\ result' = IF outcome = "ok" THEN "returned" ELSE "raised"
    /\ UNCHANGED <<dir, resp, scanVars, plVars, playerVars, histVars,
                   songs, songs_by_filepath, dn, boot, tpc,
                   found_files, new_songs, new_map, playlists_from_file, todo>>

\* The player is closed and started again: the daemon threads die with the
\* process, MusicLibrary() starts empty and main() calls scan_songs.
DeskRestart ==
    /\ dn < MaxDeskScans
    /\ dn' = dn + 1
    /\ boot' = dn + 1
    /\ songs' = <<>>
    /\ songs_by_filepath' = <<>>
    /\ playlists' = <<>>
    /\ tpc' = [t \in Threads |-> IF t = dn + 1 THEN "glob"
                                 ELSE IF tpc[t] = "none" THEN "none" ELSE "done"]
    /\ found_files' = [t \in Threads |-> <<>>]
    /\ new_songs' = [t \in Threads |-> <<>>]
    /\ new_map' = [t \in Threads |-> <<>>]
    /\ playlists_from_file' = [t \in Threads |-> NotRead]
    /\ todo' = [t \in Threads |-> {}]
    /\ result' = "none"
    /\ UNCHANGED <<dir, resp, scanVars, plVars, playerVars, histVars, playlists_file>>

\* No scan thread is running: the player is out of its loading state.
NoThreadActive == \A t \in Threads : tpc[t] \in {"none", "done"}

\* The player used one command at a time: a rescan or a save is issued only
\* when no scan thread is running; the folder changes and the player is
\* restarted at any time.
NextDesk ==
    \/ \E f \in AllFiles, st \in DeskFileStates : SetFile(f, st)
    \/ NoThreadActive /\ ScanSongs
    \/ \E t \in Threads : TGlob(t)
    \/ \E t \in Threads : TBuildOne(t)
    \/ \E t \in Threads : TAssignSongs(t)
    \/ \E t \in Threads : TAssignMap(t)
    \/ \E t \in Threads : TLoadRead(t)
    \/ \E t \in Threads : TClear(t)
    \/ \E t \in Threads, name \in DeskNames : TResolveOne(t, name)
    \/ \E t \in Threads : TLoadDone(t)
    \/ \E t \in Threads : TComplete(t)
    \/ NoThreadActive /\ \E name \in DeskNames, list \in SeqsUpTo(Range(songs), MaxPlLen),
          outcome \in WriteOutcomes : CreateOrUpdatePlaylist(name, list, outcome)
    \/ DeskRestart

SpecDesk == Init /\ [][NextDesk]_vars

\* scan_songs called whenever the caller likes, also while an earlier scan
\* thread is still running; no playlist is saved.
NextDeskRace ==
    \/ \E f \in AllFiles, st \in DeskFileStates : SetFile(f, st)
    \/ ScanSongs
    \/ \E t \in Threads : TGlob(t)
    \/ \E t \in Threads : TBuildOne(t)
    \/ \E t \in Threads : TAssignSongs(t)
    \/ \E t \in Threads : TAssignMap(t)
    \/ \E t \in Threads : TLoadRead(t)
    \/ \E t \in Threads : TComplete(t)

SpecDeskRace == Init /\ [][NextDeskRace]_vars


\* ========================================================== claims, HTTP service
\* ------------------------------------------------------------ the Player
\* The Songs of one scan of a folder holding the TrackStems files.
Tracks == {Song(<<MusicFolder, TrackStems[i], Mp3Ext>>, i - 1, "bad", 1) :
             i \in 1..Len(TrackStems)}

\* The Player object as a command finds it; events and printed collect what
\* the command notifies and prints.
Self ==
    [current_song |-> current_song, is_playing |-> is_playing,
     playback_queue |-> playback_queue, history |-> history,
     audio_src |-> audio_src, audio_playing |-> audio_playing,
     events |-> <<>>, printed |-> <<>>, calls |-> <<>>]

\* _notify(event_type, arg): every subscribed observer is called in turn.
\* A _notify that calls the observers last subscribed first.
NotifyLastFirst(p, event_type, arg) ==
    [p EXCEPT !.events = Append(@, <<event_type, arg>>),
              !.calls = @ \o [i \in 1..Len(observers[event_type]) |->
                                [observer |-> observers[event_type]
                                                [Len(observers[event_type]) + 1 - i],
                                 event |-> event_type, arg |-> arg,
                                 current_song |-> p.current_song,
                                 is_playing |-> p.is_playing]]]

\* events lists the notifications; calls lists each observer call with the
\* current_song and is_playing the observer finds when it runs.
Notify(p, event_type, arg) ==
    [p EXCEPT !.events = Append(@, <<event_type, arg>>),
              !.calls = @ \o [i \in 1..Len(observers[event_type]) |->
                                [observer |-> observers[event_type][i],
                                 event |-> event_type, arg |-> arg,
                                 current_song |-> p.current_song,
                                 is_playing |-> p.is_playing]]]

PrintLine(p, line) == [p EXCEPT !.printed = Append(@, line)]

\* playback_queue.rotate(-1)
RotateLeft(q) == Tail(q) \o <<Head(q)>>

\* Pulling the song out of its place instead of rotating.
MoveToFront(q, song) == <<song>> \o SelectSeq(q, LAMBDA x : x # song)

RECURSIVE RotateTo(_, _)
\* while self.playback_queue[0] != song: self.playback_queue.rotate(-1)
RotateTo(q, song) ==
    IF Head(q) = song THEN q ELSE RotateTo(RotateLeft(q), song)

\* The first part of play(song): a given song is brought to the front.
Arrange(p, song) ==
    IF song = None THEN p
    ELSE IF song \in Range(p.playback_queue)
         THEN [p EXCEPT !.playback_queue = RotateTo(@, song)]
         ELSE [p EXCEPT !.playback_queue = <<song>> \o @]

\* A play that forgets the track it replaces.
StartFrontNoHistory(p) ==
    LET q == p.playback_queue
        p1 == [p EXCEPT !.current_song = Head(q), !.playback_queue = Tail(q),
                        !.audio_src = Head(q).filepath,
                        !.audio_playing = TRUE, !.is_playing = TRUE]
    IN  Notify(Notify(p1, "song_change", p1.current_song),
               "play_pause", p1.is_playing)

\* The second part of play: the current song goes to the history, the front
\* of the queue becomes the current song and is started.
StartFront(p) ==
    LET q == p.playback_queue
        p1 == [p EXCEPT !.history = IF p.current_song # None
                                    THEN Append(@, p.current_song) ELSE @,
                        !.current_song = Head(q), !.playback_queue = Tail(q),
                        !.audio_src = Head(q).filepath,
                        !.audio_playing = TRUE, !.is_playing = TRUE]
    IN  Notify(Notify(p1, "song_change", p1.current_song),
               "play_pause", p1.is_playing)

\* A stop that files the current song in the history.
stop_keeping(p) ==
    LET p1 == [p EXCEPT !.audio_playing = FALSE, !.current_song = None,
                        !.is_playing = FALSE,
                        !.history = IF p.current_song # None
                                    THEN Append(@, p.current_song) ELSE @]
    IN  Notify(Notify(p1, "song_change", None), "play_pause", p1.is_playing)

stop(p) ==
    LET p1 == [p EXCEPT !.audio_playing = FALSE, !.current_song = None,
                        !.is_playing = FALSE]
    IN  Notify(Notify(p1, "song_change", None), "play_pause", p1.is_playing)

\* A play that stops when it finds nothing to play.
play_or_stop(p, song) ==
    LET a == Arrange(p, song)
    IN  IF a.playback_queue = <<>>
        THEN stop(PrintLine(a, "Fila de reprodução vazia."))
        ELSE StartFront(a)

play(p, song) ==
    LET a == Arrange(p, song)
    IN  IF a.playback_queue = <<>>
        THEN PrintLine(a, "Fila de reprodução vazia.")
        ELSE StartFront(a)

\* A resume that does not ask whether there is a current song.
resume_always(p) ==
    LET p1 == [p EXCEPT !.audio_playing = TRUE, !.is_playing = TRUE]
    IN  Notify(p1, "play_pause", p1.is_playing)

resume(p) ==
    IF p.current_song # None
    THEN LET p1 == [p EXCEPT !.audio_playing = TRUE, !.is_playing = TRUE]
         IN  Notify(p1, "play_pause", p1.is_playing)
    ELSE p

\* A pause that also drops the current song.
pause_dropping(p) ==
    LET p1 == [p EXCEPT !.audio_playing = FALSE, !.is_playing = FALSE,
                        !.current_song = None]
    IN  Notify(p1, "play_pause", p1.is_playing)

pause(p) ==
    LET p1 == [p EXCEPT !.audio_playing = FALSE, !.is_playing = FALSE]
    IN  Notify(p1, "play_pause", p1.is_playing)

\* A next that never stops.
next_play_only(p) == play(p, None)

next(p) ==
    IF p.playback_queue # <<>>
    THEN play(p, None)
    ELSE stop(PrintLine(p, "Fim da fila de reprodução."))

\* A prev that does not hand the current song back to the queue.
prev_dropping(p) ==
    IF p.history = <<>>
    THEN PrintLine(p, "Não há músicas no histórico.")
    ELSE LET prev_song == p.history[Len(p.history)]
         IN  play([p EXCEPT !.history = SubSeq(@, 1, Len(@) - 1),
                            !.playback_queue = <<prev_song>> \o @], None)

\* A prev that walks back: the song taken from the history becomes current
\* and the song it replaces goes to the queue only.
prev_walking_back(p) ==
    IF p.history = <<>>
    THEN PrintLine(p, "Não há músicas no histórico.")
    ELSE LET q1 == IF p.current_song # None
                   THEN <<p.current_song>> \o p.playback_queue
                   ELSE p.playback_queue
             prev_song == p.history[Len(p.history)]
         IN  StartFront([p EXCEPT !.history = SubSeq(@, 1, Len(@) - 1),
                                  !.current_song = None,
                                  !.playback_queue = <<prev_song>> \o q1])

prev(p) ==
    IF p.history = <<>>
    THEN PrintLine(p, "Não há músicas no histórico.")
    ELSE LET q1 == IF p.current_song # None
                   THEN <<p.current_song>> \o p.playback_queue
                   ELSE p.playback_queue
             prev_song == p.history[Len(p.history)]
         IN  play([p EXCEPT !.history = SubSeq(@, 1, Len(@) - 1),
                            !.playback_queue = <<prev_song>> \o q1], None)

\* A load that forgets to clear.
load_playlist_extend(p, song_list) ==
    [p EXCEPT !.playback_queue = @ \o song_list]

\* playback_queue.clear(); playback_queue.extend(song_list)
load_playlist(p, song_list) ==
    [p EXCEPT !.playback_queue = <<>> \o song_list]

\* The place of the first occurrence of song in q.
FirstIndex(q, song) ==
    CHOOSE i \in 1..Len(q) : q[i] = song /\ \A j \in 1..(i - 1) : q[j] # song

\* One command run to its end on the UI thread: p is the Player it leaves.
\* cmd records the command and what it found; script and step follow the
\* commands load_playlist (three song_list, nothing current, no history),
\* play(), next(), prev() while they are issued in that order.
Command(op, arg, p) ==
    /\ Len(p.playback_queue) <= MaxQueue
    /\ Len(p.history) <= MaxHist
    /\ current_song' = p.current_song
    /\ is_playing' = p.is_playing
    /\ playback_queue' = p.playback_queue
    /\ history' = p.history
    /\ audio_src' = p.audio_src
    /\ audio_playing' = p.audio_playing
    /\ events' = p.events
    /\ printed' = p.printed
    /\ calls' = p.calls
    /\ cmd' = [op |-> op, arg |-> arg,
               found_at |-> IF op = "play" /\ arg # None
                               /\ arg \in Range(playback_queue)
                            THEN FirstIndex(playback_queue, arg) ELSE 0,
               after_pause |-> cmd.op = "pause",
               after_prev |-> cmd.op = "prev",
               had_current |-> current_song # None]
    /\ IF op = "load_playlist" /\ Len(arg) = 3
          /\ current_song = None /\ history = <<>>
       THEN step' = 1 /\ script' = arg
       ELSE IF \/ step = 1 /\ op = "play" /\ arg = None
               \/ step = 2 /\ op = "next"
               \/ step = 3 /\ op = "prev"
            THEN step' = step + 1 /\ script' = script
            ELSE step' = 0 /\ script' = <<>>
    /\ UNCHANGED <<dir, resp, scanVars, plVars, deskVars, histVars,
                   observers, audio_volume>>

\* The lists the UI loads: songs of the library, each at most once.
SongLists ==
    {l \in UNION {SetToSeqs(S) : S \in SUBSET Tracks} : Len(l) <= MaxQueue}

LoadPlaylist ==
    \E song_list \in SongLists :
        Command("load_playlist", song_list, load_playlist(Self, song_list))

Play == \E song \in Tracks \cup {None} : Command("play", song, play(Self, song))

Resume == Command("resume", None, resume(Self))

Pause == Command("pause", None, pause(Self))

NextSong == Command("next", None, next(Self))

PrevSong == Command("prev", None, prev(Self))

Stop == Command("stop", None, stop(Self))

NextPlayer ==
    \/ LoadPlaylist
    \/ Play
    \/ Resume
    \/ Pause
    \/ NextSong
    \/ PrevSong
    \/ Stop

SpecPlayer == Init /\ [][NextPlayer]_vars

\* ------------------------------------------------------ Player.set_volume
\* value / 100
set_volume(value) == [num |-> value, den |-> Percent]

VolumeInputs == (0 - VolumeMargin)..(Percent + VolumeMargin)

SetVolume(value) ==
    /\ audio_volume' = set_volume(value)
    /\ UNCHANGED <<dir, resp, scanVars, plVars, deskVars, histVars,
                   current_song, is_playing, playback_queue, history,
                   audio_src, audio_playing, events, printed, cmd, script,
                   step, observers, calls>>

NextVolume == \E value \in VolumeInputs : SetVolume(value)

SpecVolume == Init /\ [][NextVolume]_vars

\* ------------------------------------------------------- Player.subscribe
\* The callbacks main() registers, and an event type the Player lacks.
ObserverFuncs == {"update_track_info_observer", "update_play_pause_button_observer"}
UnknownEvent == "volume_change"

\* The observers subscribe(event_type, observer_func) leaves.
subscribe(obs, event_type, observer_func) ==
    IF event_type \in DOMAIN obs
    THEN [obs EXCEPT ![event_type] = Append(@, observer_func)]
    ELSE obs

\* A callback is registered for an event at most once.
Subscribe(event_type, observer_func) ==
    /\ event_type \in DOMAIN observers =>
           observer_func \notin Range(observers[event_type])
    /\ observers' = subscribe(observers, event_type, observer_func)
    /\ cmd' = [NoCommand EXCEPT !.op = "subscribe"]
    /\ events' = <<>>
    /\ calls' = <<>>
    /\ printed' = <<>>
    /\ step' = 0
    /\ script' = <<>>
    /\ UNCHANGED <<dir, resp, scanVars, plVars, deskVars, histVars,
                   current_song, is_playing, playback_queue, history,
                   audio_src, audio_playing, audio_volume>>

ShortQueues ==
    /\ Len(playback_queue') <= MaxQueue - 2
    /\ Len(history') <= MaxHist - 1

\* The Player with observers, driven to shorter queues and histories.
NextObservers ==
    \/ \E e \in EventTypes \cup {UnknownEvent}, f \in ObserverFuncs : Subscribe(e, f)
    \/ LoadPlaylist /\ ShortQueues
    \/ Play /\ ShortQueues
    \/ Resume /\ ShortQueues
    \/ Pause /\ ShortQueues
    \/ NextSong /\ ShortQueues
    \/ PrevSong /\ ShortQueues
    \/ Stop /\ ShortQueues

SpecObservers == Init /\ [][NextObservers]_vars

\* ---------------------------------------------------------- the catalog
\* The sequence and the mapping hold the same tracks under the same keys.
Consistent(list, map) ==
    /\ \A i \in 1..Len(list) :
          /\ list[i].filename \in DOMAIN map
          /\ map[list[i].filename] = list[i]
    /\ \A k \in DOMAIN map : \E i \in 1..Len(list) : list[i] = map[k]

Started(w) == wpc[w] \notin {"none", "done"}
InSection(w) == wpc[w] \in {"locked", "glob", "build", "assigned", "mapped", "cleared"}
AllFinished == \A w \in Workers : ~Started(w)
SomeFinished == \E w \in Workers : wpc[w] = "done"
NoScanRunning == \A w \in Workers : ~InSection(w)

\* C1: at every instant a reader can run, the catalog sequence and the lookup
\* mapping agree (a track is in the sequence iff the mapping maps its key to it).
C1_CatalogConsistent == Consistent(songs_list, songs_map)

\* C2: single-flight: at no time are two scan workers started and not yet
\* finished (a trigger made while a scan is in flight starts no scan work).
C2_SingleFlight == Cardinality({w \in Workers : Started(w)}) <= 1

\* C3: no two scan workers are inside the build-and-replace section at the same
\* time, and once all workers have finished the catalog holds exactly one full
\* directory listing: sequence and mapping both from the same single scan.
C3_NoOverlappingReplace ==
    /\ Cardinality({w \in Workers : InSection(w)}) <= 1
    /\ (AllFinished /\ SomeFinished) =>
          /\ Consistent(songs_list, songs_map)
          /\ Paths(songs_list) = replaced
          /\ \A i, j \in 1..Len(songs_list) : songs_list[i].obj = songs_list[j].obj

\* Both workers were in flight together (the second one ran first), both have
\* finished and the catalog holds the two files of the last one's listing.
C3_Witness ==
    /\ wpc[1] = "done" /\ wpc[2] = "done" /\ AllFinished
    /\ Len(songs_list) = 2
    /\ songs_list[1].obj = 1

\* C4: once an accepted POST /api/scan has returned, status() reports
\* scanning = true until that scan has replaced the catalog.
C4_ScanningUntilReplaced ==
    \A w \in Workers \ {1} :
        wpc[w] \in {"start", "locked", "glob", "build", "assigned"}
            => get_scan_status.is_scanning

\* C5: with no scan running, get(p) returns the track whose key is p iff p was
\* in the most recent catalog replacement, and absent for every other p.
C5_GetMostRecent ==
    (NoScanRunning /\ SomeFinished) =>
        \A p \in Filenames :
            IF \E i \in 1..Len(replaced) : Basename(replaced[i]) = p
            THEN /\ get_song_by_filename(p) # None
                 /\ get_song_by_filename(p).filename = p
                 /\ get_song_by_filename(p) \in Range(songs_list)
            ELSE get_song_by_filename(p) = None

\* After two scans a key of an earlier replacement is absent and a key of the
\* most recent one is found.
C5_Witness ==
    /\ NoScanRunning
    /\ \E p \in seen : /\ p \notin {Basename(f) : f \in Range(replaced)}
                       /\ get_song_by_filename(p) = None
    /\ \E q \in Filenames : get_song_by_filename(q) # None

\* C6: for every completed scan the catalog sequence has exactly one track per
\* enumerated file, in enumeration order, and no two tracks share a path.
C6_OneTrackPerFile ==
    \A w \in Workers :
        wpc[w] \in {"assigned", "mapped", "cleared"} =>
            /\ Len(songs_list) = Len(found[w])
            /\ Paths(songs_list) = found[w]
            /\ \A i, j \in 1..Len(songs_list) :
                  songs_list[i].filepath = songs_list[j].filepath => i = j
            /\ \A i \in 1..Len(songs_list) : songs_list[i].id = i - 1

\* A scan has just replaced the catalog with a listing of two files.
C6_Witness ==
    \E w \in Workers : wpc[w] = "mapped" /\ Len(found[w]) = 2 /\ Len(songs_list) = 2

HasDefaults(song) ==
    /\ song.title = song.filepath[2]
    /\ song.artist = DefaultArtist
    /\ song.album = DefaultAlbum
    /\ song.duration = 0

\* One turn of a worker's loop, as seen from outside.
C7_Turn(w) ==
    LET n == Len(temp_songs_list[w])
        new == temp_songs_list'[w]
    IN  (wpc[w] = "build" /\ wpc'[w] = "build" /\ new # temp_songs_list[w]) =>
            /\ Len(new) = n + 1
            /\ SubSeq(new, 1, n) = temp_songs_list[w]
            /\ new[n + 1].filepath = found[w][n + 1]
            /\ dir[found[w][n + 1]] # "ok" => HasDefaults(new[n + 1])

\* C7: track construction is failure-isolated: a file whose metadata read fails
\* still yields a track, with title = filename stem, the placeholder artist and
\* album and duration 0, and the tracks built before it stay; the scan ends with
\* a track for every file.
C7_FailureIsolated ==
    /\ [][\A w \in Workers : C7_Turn(w)]_vars
    /\ [](\A w \in Workers : wpc[w] = "assigned" => Len(songs_list) = Len(found[w]))

\* The catalog holds a track read from tags next to the default track of a file
\* whose tags cannot be read.
C7_Witness ==
    /\ Len(songs_list) = 2
    /\ \E i, j \in 1..2 :
          /\ songs_list[i].title = "Test" /\ songs_list[i].artist = TagArtist
          /\ dir[songs_list[j].filepath] = "bad"
          /\ HasDefaults(songs_list[j])
\* ------------------------------------------------------ claims, playlists
\* The saved paths that resolve in the catalog, in the saved order.
StillResolving(filepaths) ==
    SelectSeq(filepaths, LAMBDA fp : fp \in DOMAIN songs_by_filepath)

\* C8: playlist round-trip: after a save, a restart, a scan and load(),
\* get(name) is the saved sequence restricted to the tracks whose paths still
\* resolve in the catalog, in the saved order; removed files are dropped.
C8_RoundTrip ==
    \A t \in Threads :
        (tpc[t] = "complete" /\ playlists_from_file[t].kind = "json") =>
            \A name \in DeskNames :
                IF name \in DOMAIN JsonLoad(playlists_file)
                THEN /\ Paths(get_playlist(name)) =
                            StillResolving(JsonLoad(playlists_file)[name])
                     /\ \A i \in 1..Len(get_playlist(name)) :
                            get_playlist(name)[i] =
                                get_song_by_filepath(get_playlist(name)[i].filepath)
                ELSE get_playlist(name) = <<>>

\* After a restart the scan has loaded a saved playlist of two different
\* tracks, the first of which was removed: the second alone is left.
C8_Witness ==
    /\ boot = 2 /\ tpc[2] = "complete"
    /\ playlists_file.kind = "json"
    /\ "X" \in DOMAIN JsonLoad(playlists_file)
    /\ Len(JsonLoad(playlists_file)["X"]) = 2
    /\ JsonLoad(playlists_file)["X"][1] # JsonLoad(playlists_file)["X"][2]
    /\ JsonLoad(playlists_file)["X"][1] \notin DOMAIN songs_by_filepath
    /\ Len(get_playlist("X")) = 1
    /\ get_playlist("X")[1].filepath = JsonLoad(playlists_file)["X"][2]

\* C9: after every scan completion every track held in every in-memory playlist
\* is the instance the current catalog maps its path to (and so no reference
\* to a path that left the catalog remains), whatever saves, failed saves,
\* scans and file removals came before.
C9_PlaylistsFollowCatalog ==
    \A t \in Threads :
        tpc[t] = "complete" =>
            \A name \in DOMAIN playlists :
                \A i \in 1..Len(playlists[name]) :
                    get_song_by_filepath(playlists[name][i].filepath) = playlists[name][i]

\* C10: save(name, seq) overwrites the entry for name wholesale, leaves every
\* other entry unchanged, and has written the full store to durable storage
\* before it returns success (201).
C10_SaveDurable ==
    [][(resp' = 201 /\ req'.valid) =>
          /\ DOMAIN app_playlists' = DOMAIN app_playlists \cup {req'.name}
          /\ app_playlists'[req'.name] = req'.songs
          /\ \A n \in DOMAIN app_playlists \ {req'.name} :
                app_playlists'[n] = app_playlists[n]
          /\ app_playlists_file' = JsonDump(app_playlists')]_vars
\* C11: load() with the persisted file absent, or with a file that does not
\* parse, leaves the playlist store empty, whatever the store held before.
C11_LoadFailureEmpties ==
    \A t \in Threads :
        (tpc[t] = "complete" /\ playlists_file.kind \in {"absent", "corrupt"}) =>
            playlists = <<>>

\* C12: when persisting fails during save(name, seq) the caller does not
\* receive a success result, and the store still holds seq under name.
C12_FailureReported ==
    [][(req'.valid /\ app_save' = "raised") =>
          /\ resp' # 201
          /\ req'.name \in DOMAIN app_playlists'
          /\ app_playlists'[req'.name] = req'.songs]_vars

\* ---------------------------------------------------------- claims, Player
\* The history once the current song, if any, has been pushed onto it.
HistoryWithCurrent ==
    IF current_song # None THEN Append(history, current_song) ELSE history

StopEvents == <<<<"song_change", None>>, <<"play_pause", FALSE>>>>

\* C13: play() on a non-empty queue appends the current track, if any, to the
\* history, makes the front of the queue the current track, removes exactly
\* that element from the queue and sets playing; and starting with nothing
\* current and no history, load_playlist([a,b,c]); play() gives current a,
\* queue [b,c], history []; next() gives current b, history [a]; prev() gives
\* current a, history [b].
C13_PlayAdvances ==
    [][/\ (cmd'.op = "play" /\ cmd'.arg = None /\ playback_queue # <<>>) =>
             /\ history' = HistoryWithCurrent
             /\ current_song' = Head(playback_queue)
             /\ playback_queue' = Tail(playback_queue)
             /\ is_playing'
       /\ step' = 2 =>
             /\ current_song' = script'[1]
             /\ playback_queue' = <<script'[2], script'[3]>>
             /\ history' = <<>>
       /\ step' = 3 =>
             /\ current_song' = script'[2]
             /\ history' = <<script'[1]>>
       /\ step' = 4 =>
             /\ current_song' = script'[1]
             /\ history' = <<script'[2]>>]_vars

C13_Witness ==
    /\ step = 4 /\ cmd.op = "prev"
    /\ current_song = script[1]
    /\ history = <<script[2]>>

\* C14: prev() with an empty history changes nothing and notifies nothing;
\* with history H+[h], current track c and queue Q it ends with current h,
\* history H+[c] and queue [c]+Q; with no current track it ends with current
\* h, history H and queue Q.
C14_Prev ==
    [][cmd'.op = "prev" =>
          IF history = <<>>
          THEN /\ UNCHANGED <<current_song, playback_queue, history, is_playing>>
               /\ events' = <<>>
          ELSE LET h == history[Len(history)]
                   H == SubSeq(history, 1, Len(history) - 1)
               IN  /\ current_song' = h
                   /\ IF current_song # None
                      THEN /\ history' = Append(H, current_song)
                           /\ playback_queue' = <<current_song>> \o playback_queue
                      ELSE /\ history' = H
                           /\ playback_queue' = playback_queue]_vars

C14_Witness ==
    /\ cmd.op = "prev" /\ cmd.had_current
    /\ current_song # None
    /\ Len(history) = 2
    /\ Len(playback_queue) >= 2
    /\ Head(playback_queue) = history[Len(history)]

\* C15: play(t) with t in the queue Q, first at position i, makes t current
\* and leaves the queue Q[i+1..] followed by Q[..i-1]; play(t) with t not in Q
\* makes t current and leaves the queue Q; either way the previous current
\* track, if any, is pushed onto the history.
C15_PlayTrack ==
    [][(cmd'.op = "play" /\ cmd'.arg # None) =>
          LET t == cmd'.arg
              Q == playback_queue
          IN  /\ current_song' = t
              /\ history' = HistoryWithCurrent
              /\ IF t \in Range(Q)
                 THEN LET i == FirstIndex(Q, t)
                      IN  playback_queue' =
                              SubSeq(Q, i + 1, Len(Q)) \o SubSeq(Q, 1, i - 1)
                 ELSE playback_queue' = Q]_vars

C15_Witness ==
    /\ cmd.op = "play" /\ cmd.found_at = 2 /\ cmd.had_current
    /\ current_song = cmd.arg
    /\ Len(playback_queue) = 2
    /\ history # <<>>

\* C16: play() on an empty queue reports that there is nothing to play and
\* leaves current track, queue, history and playing flag as they were, with
\* no notification.
C16_NothingToPlay ==
    [][(cmd'.op = "play" /\ cmd'.arg = None /\ playback_queue = <<>>) =>
          /\ UNCHANGED <<current_song, playback_queue, history, is_playing>>
          /\ events' = <<>>
          /\ printed' = <<"Fila de reprodução vazia.">>]_vars

C16_Witness ==
    /\ cmd.op = "play" /\ cmd.arg = None
    /\ printed = <<"Fila de reprodução vazia.">>
    /\ current_song # None /\ is_playing
    /\ history # <<>>

\* C17: next() with a non-empty queue does exactly what play() does; with an
\* empty queue it clears the current track and the playing flag, notifies
\* song_change(None) and play_pause(False), and leaves history and queue as
\* they were.
C17_Next ==
    [][cmd'.op = "next" =>
          IF playback_queue # <<>>
          THEN LET p == play(Self, None)
               IN  /\ current_song' = p.current_song
                   /\ is_playing' = p.is_playing
                   /\ playback_queue' = p.playback_queue
                   /\ history' = p.history
                   /\ audio_src' = p.audio_src
                   /\ audio_playing' = p.audio_playing
                   /\ events' = p.events
                   /\ printed' = p.printed
          ELSE /\ current_song' = None
               /\ ~is_playing'
               /\ events' = StopEvents
               /\ UNCHANGED <<history, playback_queue>>]_vars

C17_Witness ==
    /\ cmd.op = "next" /\ cmd.had_current
    /\ current_song = None
    /\ ~is_playing
    /\ playback_queue = <<>>
    /\ history # <<>>

\* C18 as stated: from every reachable state pause() followed by resume()
\* leaves current track, queue and history unchanged and ends playing.
C18_AlwaysPlaying ==
    /\ LET p == resume(pause(Self))
       IN  /\ p.current_song = current_song
           /\ p.playback_queue = playback_queue
           /\ p.history = history
           /\ p.is_playing
    /\ (cmd.op = "resume" /\ cmd.after_pause) => is_playing

\* C18: from every reachable state pause() followed by resume() leaves
\* current track, queue and history unchanged; it ends playing when there is
\* a current track, and not playing when there is none.
C18_PauseResume ==
    /\ LET p == resume(pause(Self))
       IN  /\ p.current_song = current_song
           /\ p.playback_queue = playback_queue
           /\ p.history = history
           /\ p.is_playing = (current_song # None)
    /\ (cmd.op = "resume" /\ cmd.after_pause) =>
           is_playing = (current_song # None)

C18_Witness ==
    /\ cmd.op = "resume" /\ cmd.after_pause
    /\ current_song # None /\ is_playing
    /\ playback_queue # <<>>
    /\ history # <<>>

\* C19: load_playlist(seq) leaves the queue equal to seq, nothing of the old
\* queue remaining, leaves current track, history and playing flag as they
\* were, and notifies nothing.
C19_LoadReplaces ==
    [][cmd'.op = "load_playlist" =>
          /\ playback_queue' = cmd'.arg
          /\ UNCHANGED <<current_song, history, is_playing>>
          /\ events' = <<>>]_vars

C19_Witness ==
    /\ cmd.op = "load_playlist"
    /\ Len(cmd.arg) = 2
    /\ playback_queue = cmd.arg
    /\ current_song # None /\ is_playing
    /\ current_song \notin Range(playback_queue)
    /\ history # <<>>

\* C20: stop() clears the current track and the playing flag, notifies
\* song_change(None) and then play_pause(False), and leaves queue and history
\* as they were.
C20_Stop ==
    [][cmd'.op = "stop" =>
          /\ current_song' = None
          /\ ~is_playing'
          /\ events' = StopEvents
          /\ UNCHANGED <<playback_queue, history>>]_vars

C20_Witness ==
    /\ cmd.op = "stop" /\ cmd.had_current
    /\ current_song = None
    /\ events = StopEvents
    /\ playback_queue # <<>>
    /\ history # <<>>
\* --------------------------------------------------- claims, play history
\* The listing has the latest appended entry first, the earliest last.
MostRecentFirst ==
    /\ Len(get_play_history) = Len(play_history)
    /\ \A i \in 1..Len(play_history) :
          get_play_history[i] = play_history[Len(play_history) + 1 - i]

\* C21: add_song_to_history(f) appends the track exactly when f resolves in
\* the catalog and differs from the filename at the top of the history, and
\* otherwise leaves the history as it was; a stream request for a filename
\* the catalog does not hold answers 404 and leaves the history as it was;
\* the history endpoint lists the entries most recent first.
C21_HistoryRecorded ==
    [][/\ (spc = "found" /\ spc' = "recorded") =>
             IF /\ sname \in DOMAIN songs_map
                /\ \/ play_history = <<>>
                   \/ play_history[Len(play_history)].filename # sname
             THEN play_history' = Append(play_history, to_dict(songs_map[sname]))
             ELSE play_history' = play_history
       /\ spc' = "missed" => (resp' = 404 /\ play_history' = play_history)
       /\ MostRecentFirst']_vars

C21_Witness ==
    /\ spc = "recorded"
    /\ Len(play_history) = 2
    /\ play_history[1].filename # play_history[2].filename
    /\ sname = play_history[2].filename
    /\ get_play_history[1].filename = sname

\* ------------------------------------------------------ claims, observers
\* How many of the last command's notifications were of type e.
Emitted(e) == Cardinality({j \in 1..Len(events) : events[j][1] = e})

\* C22: every observer call of a command finds current_song and is_playing
\* at the values the command leaves them; the observers of an event are
\* called in the order they subscribed, once per notification; a play() that
\* starts a song notifies song_change(current song) once and then
\* play_pause(True) once.
C22_Delivery ==
    /\ \A k \in 1..Len(calls) :
          /\ calls[k].current_song = current_song
          /\ calls[k].is_playing = is_playing
    /\ \A e \in EventTypes :
          LET cs == SelectSeq(calls, LAMBDA c : c.event = e)
              n == Len(observers[e])
          IN  /\ Len(cs) = n * Emitted(e)
              /\ \A k \in 1..Len(cs) :
                    cs[k].observer = observers[e][((k - 1) % n) + 1]
    /\ (cmd.op = "play" /\ events # <<>>) =>
          events = <<<<"song_change", current_song>>, <<"play_pause", TRUE>>>>

C22_Witness ==
    /\ cmd.op = "play"
    /\ Len(observers["song_change"]) = 2
    /\ Len(observers["play_pause"]) = 2
    /\ Len(calls) = 4
    /\ calls[1].observer # calls[2].observer
    /\ calls[1].arg = current_song

\* ---------------------------------------------------- claims, Player, more
\* C23: after any sequence of load_playlist, play, next, prev and stop the
\* history never holds the same track in two adjacent positions.
C23_NoAdjacentRepeat ==
    \A i \in 1..(Len(history) - 1) : history[i] # history[i + 1]

\* C24: whatever integer set_volume is given, the volume handed to the audio
\* backend lies between 0 and 1.
C24_VolumeInRange ==
    /\ 0 <= audio_volume.num
    /\ audio_volume.num <= audio_volume.den

\* -------------------------------------------------- claims, scan lifecycle
\* Every step a scan thread takes.
WorkerStep(w) ==
    \/ Acquire(w)
    \/ SetScanning(w)
    \/ DoGlob(w)
    \/ BuildOne(w)
    \/ AssignList(w)
    \/ AssignMap(w)
    \/ ClearScanning(w)
    \/ Release(w)

\* The service with one scan thread fewer and files that come and go, each
\* thread scheduled again and again until it ends.
NextLive ==
    \/ \E f \in AllFiles, st \in DeskFileStates : SetFile(f, st)
    \/ TriggerCheck /\ (rpc' = "call" => nscans < MaxScans - 1)
    \/ ScanSongsAsync
    \/ \E w \in Workers : WorkerStep(w)

SpecLive ==
    Init /\ [][NextLive]_vars /\ \A w \in Workers : WF_vars(WorkerStep(w))

\* C25: under fair scheduling every started scan thread replaces the catalog
\* and ends, after which is_scanning is false and stays false until another
\* scan is started; is_scanning turns false only in a thread that has
\* replaced both the list and the map.
C25_RunsToCompletion ==
    /\ \A w \in Workers : (wpc[w] = "start") ~> (wpc[w] = "mapped")
    /\ \A w \in Workers : Started(w) ~> (wpc[w] = "done")
    /\ (\E w \in Workers : Started(w)) ~>
          (~is_scanning /\ \A w \in Workers : ~Started(w))
    /\ [][((\A w \in Workers : ~Started(w)) /\ ~is_scanning) =>
             (~is_scanning' \/ \E w \in Workers : wpc[w] # wpc'[w])]_vars
    /\ [][(is_scanning /\ ~is_scanning') =>
             \E w \in Workers :
                /\ wpc[w] = "mapped"
                /\ songs_list = temp_songs_list[w]
                /\ songs_map = temp_songs_map[w]]_vars

\* Two scans were accepted, both have replaced the catalog and ended.
C25_Witness ==
    /\ wpc[1] = "done" /\ wpc[2] = "done"
    /\ ~is_scanning
    /\ resp = 202
    /\ Len(songs_list) = 2

\* ---------------------------------------------------- claims, Player, last
\* C26: in every reachable Player state is_playing implies that there is a
\* current song.
C26_PlayingHasCurrent == is_playing => current_song # None

\* resume() was called with nothing current and left the Player not playing.
C26_Witness ==
    /\ cmd.op = "resume" /\ ~cmd.had_current
    /\ ~is_playing
    /\ current_song = None
    /\ history # <<>>

\* C27: with a current track c and history H+[h], prev() twice ends with
\* current c and history H+[h] again and with the queue grown by [h, c] at
\* its front: the second prev() brings c back instead of reaching the top
\* of H.
C27_PrevTwice ==
    (current_song # None /\ history # <<>>) =>
        LET p == prev(prev(Self))
        IN  /\ p.current_song = current_song
            /\ p.history = history
            /\ p.playback_queue =
                  <<history[Len(history)], current_song>> \o playback_queue

\* prev() ran twice in a row from a state with a current track.
C27_Witness ==
    /\ cmd.op = "prev" /\ cmd.after_prev /\ cmd.had_current
    /\ Len(history) = 2
    /\ Len(playback_queue) = 3
    /\ playback_queue[2] = current_song
    /\ playback_queue[1] = history[Len(history)]
    /\ playback_queue[1] # current_song
    /\ events # <<>>

\* ------------------------------------------- claims, desktop library races
\* The playlist thread t's load_playlists is rebuilding, once rebuilt.
Resolved(t, name) ==
    IF name \in DOMAIN JsonLoad(playlists_from_file[t])
    THEN ResolveAll(JsonLoad(playlists_from_file[t])[name])
    ELSE <<>>

\* C28: a get_playlist(name) that runs while a scan thread re-resolves the
\* playlists returns the playlist as it was before or as it is once rebuilt:
\* right after the thread's clear() it returns one of the two.
C28_GetSeesWhole ==
    [][\A t \in Threads : \A name \in DeskNames :
          (tpc[t] = "clear" /\ tpc'[t] = "resolve") =>
              get_playlist(name)' \in {get_playlist(name), Resolved(t, name)'}]_vars

\* C29: once every scan thread has finished, the song list and the
\* path-to-song mapping come from the same scan: every song of the list is
\* the value the mapping holds for its path and the mapping has no other
\* entry.
C29_SameScan ==
    NoThreadActive =>
        /\ \A i \in 1..Len(songs) :
              /\ songs[i].filepath \in DOMAIN songs_by_filepath
              /\ songs_by_filepath[songs[i].filepath] = songs[i]
        /\ DOMAIN songs_by_filepath = Range(Paths(songs))
====
